---- MODULE Spec2Model ----
(***************************************************************************)
(* A model of json.py, the Streamlit "JSON Generator + Editor".            *)
(*                                                                         *)
(* JSON values are tagged records; a Python str is a sequence of one-      *)
(* character strings, so that split, startswith, isdigit, lower, str() and *)
(* json.loads are computed character by character.  A Python dict is the   *)
(* sequence of its (key, value) pairs in insertion order.                  *)
(*                                                                         *)
(* Spec     the four transformations applied to bounded inputs.            *)
(* SpecApp  the session state machine of main(): one action per widget     *)
(*          interaction, each a whole rerun of the script.                 *)
(***************************************************************************)
EXTENDS Integers, Sequences, FiniteSets, TLC

VARIABLES
    arg,              \* the argument of the transformation under call
    op,               \* the transformation applied ("none" before the call)
    res,              \* what the call returned, or the exception it raised
    argAfter,         \* the argument object as it is after the call
    original_json,    \* st.session_state.original_json
    generated_jsons,  \* st.session_state.generated_jsons
    edited_jsons,     \* st.session_state.edited_jsons
    output_jsons,     \* st.session_state.output_jsons
    show_forms,       \* st.session_state.show_forms
    current_editing,  \* st.session_state.current_editing
    last              \* the widget interaction of the last rerun and its message

fnVars == <<arg, op, res, argAfter>>
session == <<original_json, generated_jsons, edited_jsons, output_jsons,
             show_forms, current_editing>>
vars == <<arg, op, res, argAfter, original_json, generated_jsons, edited_jsons,
          output_jsons, show_forms, current_editing, last>>

(***************************************************************************)
(* Bounds of the model.                                                    *)
(***************************************************************************)
MaxNodes == 4
MaxStrLen == 3
MaxDocs == 2

\* st.number_input("How many JSONs to generate?", min_value=1, max_value=20)
MinJsons == 1
MaxJsons == 20

(***************************************************************************)
(* JSON values as Python holds them.                                       *)
(***************************************************************************)
JNull == [t |-> "null"]
JBool(b) == [t |-> "bool", b |-> b]
JInt(n) == [t |-> "int", n |-> n]
JStr(s) == [t |-> "str", s |-> s]
JList(xs) == [t |-> "list", xs |-> xs]
JDict(kv) == [t |-> "dict", kv |-> kv]
\* An exception that leaves the call.
Raised(kind) == [t |-> "error", kind |-> kind]

RECURSIVE Pow10(_)
Pow10(e) == IF e = 0 THEN 1 ELSE 10 * Pow10(e - 1)

\* A Python float that is a short decimal: m / 10^e, in lowest form.
RECURSIVE JFloat(_, _)
JFloat(m, e) ==
    IF e > 0 /\ m % 10 = 0 THEN JFloat(m \div 10, e - 1)
    ELSE [t |-> "float", m |-> m, e |-> e]

IsDict(v) == v.t = "dict"
IsList(v) == v.t = "list"
IsStr(v) == v.t = "str"
IsBool(v) == v.t = "bool"
\* isinstance(v, (int, float)): bool is a subclass of int.
IsIntOrFloat(v) == v.t \in {"int", "float", "bool"}
IsError(v) == v.t = "error"

\* bool(v)
Truthy(v) ==
    CASE v.t = "null" -> FALSE
      [] v.t = "bool" -> v.b
      [] v.t = "int" -> v.n # 0
      [] v.t = "float" -> v.m # 0
      [] v.t = "str" -> v.s # <<>>
      [] v.t = "list" -> v.xs # <<>>
      [] v.t = "dict" -> v.kv # <<>>

(***************************************************************************)
(* dict operations on the insertion-ordered pair sequence.                 *)
(***************************************************************************)
DictKeys(kv) == {kv[i][1] : i \in 1..Len(kv)}
DictHas(kv, k) == \E i \in 1..Len(kv) : kv[i][1] = k
DictGet(kv, k) == kv[CHOOSE i \in 1..Len(kv) : kv[i][1] = k][2]
\* d[k] = v: an existing key keeps its position, a new key goes last.
DictSet(kv, k, v) ==
    IF DictHas(kv, k)
    THEN [i \in 1..Len(kv) |-> IF kv[i][1] = k THEN <<k, v>> ELSE kv[i]]
    ELSE Append(kv, <<k, v>>)

\* dict(items)
RECURSIVE DictFromItems(_, _)
DictFromItems(items, acc) ==
    IF items = <<>> THEN acc
    ELSE DictFromItems(Tail(items), DictSet(acc, Head(items)[1], Head(items)[2]))

(***************************************************************************)
(* make_empty                                                              *)
(***************************************************************************)
RECURSIVE make_empty(_)
make_empty(obj) ==
    IF IsDict(obj)
    THEN JDict([i \in 1..Len(obj.kv) |-> <<obj.kv[i][1], make_empty(obj.kv[i][2])>>])
    ELSE IF IsList(obj) THEN JList(<<>>)
    ELSE IF IsStr(obj) THEN JStr(<<>>)
    ELSE IF IsIntOrFloat(obj) THEN JInt(0)
    ELSE IF IsBool(obj) THEN JBool(FALSE)
    ELSE JNull

(***************************************************************************)
(* clean_json                                                              *)
(***************************************************************************)
\* item not in [None, "", []]
ListItemKept(item) ==
    /\ item # JNull
    /\ item # JStr(<<>>)
    /\ item # JList(<<>>)

\* The slip "if value:", which also drops 0, 0.0 and False.
ScalarKeptIfTruthy(value) ==
    /\ Truthy(value)
    /\ value # JStr(<<"n", "u", "l", "l">>)
    /\ value # JStr(<<"N", "o", "n", "e">>)

\* value not in [None, "", "null", "None"]
ScalarKept(value) ==
    /\ value # JNull
    /\ value # JStr(<<>>)
    /\ value # JStr(<<"n", "u", "l", "l">>)
    /\ value # JStr(<<"N", "o", "n", "e">>)

\* The slip "if value:", which tests the dict before it was cleaned.
NestedKeptIfValue(value, cleaned_nested) == value.kv # <<>>

\* if cleaned_nested: a dict is true when it has an entry
NestedKept(value, cleaned_nested) == cleaned_nested.kv # <<>>

RECURSIVE clean_json(_)
RECURSIVE CleanList(_)
RECURSIVE CleanEntries(_, _)

\* [clean_json(item) if isinstance(item, dict) else item
\*  for item in value if item not in [None, "", []]]
CleanList(xs) ==
    IF xs = <<>> THEN <<>>
    ELSE LET item == Head(xs)
         IN  IF ListItemKept(item)
             THEN <<IF IsDict(item) THEN clean_json(item) ELSE item>>
                  \o CleanList(Tail(xs))
             ELSE CleanList(Tail(xs))

\* The loop over data.items(), filling cleaned.
CleanEntries(kv, cleaned) ==
    IF kv = <<>> THEN cleaned
    ELSE LET key == Head(kv)[1]
             value == Head(kv)[2]
         IN  IF IsDict(value)
             THEN LET cleaned_nested == clean_json(value)
                  IN  CleanEntries(Tail(kv),
                          IF NestedKept(value, cleaned_nested)
                          THEN DictSet(cleaned, key, cleaned_nested)
                          ELSE cleaned)
             ELSE IF IsList(value)
             THEN LET cleaned_list == CleanList(value.xs)
                  IN  CleanEntries(Tail(kv),
                          IF cleaned_list # <<>>
                          THEN DictSet(cleaned, key, JList(cleaned_list))
                          ELSE cleaned)
             ELSE CleanEntries(Tail(kv),
                          IF ScalarKept(value)
                          THEN DictSet(cleaned, key, value)
                          ELSE cleaned)

clean_json(data) ==
    IF IsDict(data) THEN JDict(CleanEntries(data.kv, <<>>)) ELSE data

(***************************************************************************)
(* Python str operations, character by character.                          *)
(***************************************************************************)
DigitChars == <<"0", "1", "2", "3", "4", "5", "6", "7", "8", "9">>
UpperChars == <<"A", "B", "C", "D", "E", "F", "G", "H", "I", "J", "K", "L", "M",
                "N", "O", "P", "Q", "R", "S", "T", "U", "V", "W", "X", "Y", "Z">>
LowerChars == <<"a", "b", "c", "d", "e", "f", "g", "h", "i", "j", "k", "l", "m",
                "n", "o", "p", "q", "r", "s", "t", "u", "v", "w", "x", "y", "z">>

IsDigitChar(c) == \E i \in 1..10 : DigitChars[i] = c
DigitVal(c) == (CHOOSE i \in 1..10 : DigitChars[i] = c) - 1

\* str.isdigit(): every character a digit, and at least one character.
IsDigitStr(s) == s # <<>> /\ \A i \in 1..Len(s) : IsDigitChar(s[i])

\* str.lower()
LowerChar(c) ==
    IF \E i \in 1..26 : UpperChars[i] = c
    THEN LowerChars[CHOOSE i \in 1..26 : UpperChars[i] = c]
    ELSE c
Lower(s) == [i \in 1..Len(s) |-> LowerChar(s[i])]

\* value.replace('.', '')
RECURSIVE RemoveDots(_)
RemoveDots(s) ==
    IF s = <<>> THEN <<>>
    ELSE IF Head(s) = "." THEN RemoveDots(Tail(s))
    ELSE <<Head(s)>> \o RemoveDots(Tail(s))

CountDots(s) == Cardinality({i \in 1..Len(s) : s[i] = "."})

\* key.split('.')
RECURSIVE SplitFrom(_, _)
SplitFrom(s, piece) ==
    IF s = <<>> THEN <<piece>>
    ELSE IF Head(s) = "." THEN <<piece>> \o SplitFrom(Tail(s), <<>>)
    ELSE SplitFrom(Tail(s), Append(piece, Head(s)))
Split(s) == SplitFrom(s, <<>>)

\* int(s) of a digit string
RECURSIVE IntOfDigits(_, _)
IntOfDigits(s, acc) ==
    IF s = <<>> THEN acc
    ELSE IntOfDigits(Tail(s), 10 * acc + DigitVal(Head(s)))

\* str(n) of an int n >= 0
RECURSIVE IntRepr(_)
IntRepr(n) ==
    IF n < 10 THEN <<DigitChars[n + 1]>>
    ELSE IntRepr(n \div 10) \o <<DigitChars[(n % 10) + 1]>>

\* float(s) of digits around exactly one '.'
FloatOfStr(s) ==
    LET dot == CHOOSE i \in 1..Len(s) : s[i] = "."
        ds == RemoveDots(s)
    IN  JFloat(IntOfDigits(ds, 0), Len(s) - dot)

\* float(n) of an int or bool, as st.number_input's value=float(value)
FloatOf(v) ==
    IF v.t = "float" THEN v
    ELSE IF v.t = "bool" THEN JFloat(IF v.b THEN 1 ELSE 0, 0)
    ELSE JFloat(v.n, 0)

RECURSIVE ZeroPad(_, _)
ZeroPad(s, width) == IF Len(s) >= width THEN s ELSE ZeroPad(<<"0">> \o s, width)

\* repr(f) of a short decimal float
FloatRepr(f) ==
    IntRepr(f.m \div Pow10(f.e)) \o <<".">> \o
    (IF f.e = 0 THEN <<"0">> ELSE ZeroPad(IntRepr(f.m % Pow10(f.e)), f.e))

\* repr of a str: single quotes, double quotes when it holds ' and no ".
StrRepr(s) ==
    LET q == IF (\E i \in 1..Len(s) : s[i] = "'") /\ ~(\E i \in 1..Len(s) : s[i] = "\"")
             THEN "\"" ELSE "'"
    IN  <<q>> \o s \o <<q>>

RECURSIVE PyRepr(_)
RECURSIVE ReprItems(_)
RECURSIVE ReprEntries(_)
ReprItems(xs) ==
    IF xs = <<>> THEN <<>>
    ELSE PyRepr(Head(xs)) \o
         (IF Tail(xs) = <<>> THEN <<>> ELSE <<",", " ">> \o ReprItems(Tail(xs)))
ReprEntries(kv) ==
    IF kv = <<>> THEN <<>>
    ELSE StrRepr(Head(kv)[1]) \o <<":", " ">> \o PyRepr(Head(kv)[2]) \o
         (IF Tail(kv) = <<>> THEN <<>> ELSE <<",", " ">> \o ReprEntries(Tail(kv)))
\* str(v), which for a list is repr of the list and of each item
PyRepr(v) ==
    CASE v.t = "null" -> <<"N", "o", "n", "e">>
      [] v.t = "bool" -> IF v.b THEN <<"T", "r", "u", "e">>
                         ELSE <<"F", "a", "l", "s", "e">>
      [] v.t = "int" -> IntRepr(v.n)
      [] v.t = "float" -> FloatRepr(v)
      [] v.t = "str" -> StrRepr(v.s)
      [] v.t = "list" -> <<"[">> \o ReprItems(v.xs) \o <<"]">>
      [] v.t = "dict" -> <<"{">> \o ReprEntries(v.kv) \o <<"}">>

(***************************************************************************)
(* flatten_dict                                                            *)
(***************************************************************************)
\* The slip of leaving the parent key out of a nested key.
NewKeyWithoutParent(parent_key, k) == k

\* f"{parent_key}{sep}{k}" if parent_key else k
NewKey(parent_key, k) ==
    IF parent_key # <<>> THEN parent_key \o <<".">> \o k ELSE k

RECURSIVE flatten_dict(_, _)
RECURSIVE FlattenItems(_, _)
\* The loop over d.items(), filling items.
FlattenItems(kv, parent_key) ==
    IF kv = <<>> THEN <<>>
    ELSE LET k == Head(kv)[1]
             v == Head(kv)[2]
             new_key == NewKey(parent_key, k)
         IN  (IF IsDict(v) THEN flatten_dict(v, new_key).kv
              ELSE IF IsList(v) THEN << <<new_key, JStr(PyRepr(v))>> >>
              ELSE << <<new_key, v>> >>)
             \o FlattenItems(Tail(kv), parent_key)

flatten_dict(d, parent_key) ==
    JDict(DictFromItems(FlattenItems(d.kv, parent_key), <<>>))

(***************************************************************************)
(* json.loads, for texts without backslash escapes, signs or exponents     *)
(* (no text of this model holds one).  A parse step returns                *)
(* [ok, v, i]: whether it matched, the value, and the next position.       *)
(***************************************************************************)
NoParse == [ok |-> FALSE, v |-> JNull, i |-> 0]
Parsed(v, i) == [ok |-> TRUE, v |-> v, i |-> i]

CharAt(s, i) == IF i >= 1 /\ i <= Len(s) THEN s[i] ELSE "EOF"

RECURSIVE SkipWs(_, _)
SkipWs(s, i) == IF CharAt(s, i) = " " THEN SkipWs(s, i + 1) ELSE i

HasWord(s, i, w) ==
    /\ i + Len(w) - 1 <= Len(s)
    /\ \A j \in 1..Len(w) : s[i + j - 1] = w[j]

\* The end of the run of digits that starts at i.
RECURSIVE DigitsEnd(_, _)
DigitsEnd(s, i) == IF IsDigitChar(CharAt(s, i)) THEN DigitsEnd(s, i + 1) ELSE i

\* (0|[1-9]\d*)(\.\d+)?
NumberFrom(s, i, intEnd, fracEnd) ==
    IF CharAt(s, intEnd) = "." /\ IsDigitChar(CharAt(s, intEnd + 1))
    THEN Parsed(JFloat(IntOfDigits(SubSeq(s, i, intEnd - 1)
                                   \o SubSeq(s, intEnd + 1, fracEnd - 1), 0),
                       fracEnd - intEnd - 1), fracEnd)
    ELSE Parsed(JInt(IntOfDigits(SubSeq(s, i, intEnd - 1), 0)), intEnd)
IntEnd(s, i) == IF s[i] = "0" THEN i + 1 ELSE DigitsEnd(s, i)
ParseNumber(s, i) == NumberFrom(s, i, IntEnd(s, i), DigitsEnd(s, IntEnd(s, i) + 1))

\* The characters up to the closing quote; i is just after the opening one.
RECURSIVE ParseString(_, _, _)
ParseString(s, i, acc) ==
    IF i > Len(s) THEN NoParse
    ELSE IF s[i] = "\"" THEN Parsed(JStr(acc), i + 1)
    ELSE ParseString(s, i + 1, Append(acc, s[i]))

RECURSIVE ParseValue(_, _)
RECURSIVE ParseArrayItems(_, _, _)
RECURSIVE ParseObjectPairs(_, _, _)

\* After an array item: ']' closes the array, ',' goes on to the next item.
ArrayAfterItem(s, item, j, acc) ==
    IF ~item.ok THEN NoParse
    ELSE IF CharAt(s, j) = "]" THEN Parsed(JList(Append(acc, item.v)), j + 1)
    ELSE IF CharAt(s, j) = ","
         THEN ParseArrayItems(s, SkipWs(s, j + 1), Append(acc, item.v))
    ELSE NoParse

\* i is at the first character of an item; the array closes with ']'.
ParseArrayItems(s, i, acc) ==
    LET item == ParseValue(s, i)
    IN  ArrayAfterItem(s, item, IF item.ok THEN SkipWs(s, item.i) ELSE 0, acc)

\* After an object's value: '}' closes the object, ',' goes on to the next key.
ObjectAfterValue(s, val, j, pairs) ==
    IF ~val.ok THEN NoParse
    ELSE IF CharAt(s, j) = "}"
         THEN Parsed(JDict(DictFromItems(Append(pairs, val.v), <<>>)), j + 1)
    ELSE IF CharAt(s, j) = ","
         THEN ParseObjectPairs(s, SkipWs(s, j + 1), Append(pairs, val.v))
    ELSE NoParse

\* After an object's key: ':' and the value. acc holds the pairs so far.
ObjectAfterKey(s, key, c, acc) ==
    IF ~key.ok \/ CharAt(s, c) # ":" THEN NoParse
    ELSE LET val == ParseValue(s, SkipWs(s, c + 1))
         IN  ObjectAfterValue(s, [ok |-> val.ok, v |-> <<key.v.s, val.v>>],
                              IF val.ok THEN SkipWs(s, val.i) ELSE 0, acc)

\* i is at the opening quote of a key; the object closes with '}'.
ParseObjectPairs(s, i, acc) ==
    IF CharAt(s, i) # "\"" THEN NoParse
    ELSE LET key == ParseString(s, i + 1, <<>>)
         IN  ObjectAfterKey(s, key, IF key.ok THEN SkipWs(s, key.i) ELSE 0, acc)

\* j is the first position after '{' and the whitespace behind it.
ParseObjectFrom(s, j) ==
    IF CharAt(s, j) = "}" THEN Parsed(JDict(<<>>), j + 1)
    ELSE ParseObjectPairs(s, j, <<>>)

\* j is the first position after '[' and the whitespace behind it.
ParseArrayFrom(s, j) ==
    IF CharAt(s, j) = "]" THEN Parsed(JList(<<>>), j + 1)
    ELSE ParseArrayItems(s, j, <<>>)

ParseValue(s, i) ==
    LET c == CharAt(s, i)
    IN  IF c = "\"" THEN ParseString(s, i + 1, <<>>)
        ELSE IF c = "{" THEN ParseObjectFrom(s, SkipWs(s, i + 1))
        ELSE IF c = "[" THEN ParseArrayFrom(s, SkipWs(s, i + 1))
        ELSE IF HasWord(s, i, <<"n", "u", "l", "l">>) THEN Parsed(JNull, i + 4)
        ELSE IF HasWord(s, i, <<"t", "r", "u", "e">>) THEN Parsed(JBool(TRUE), i + 4)
        ELSE IF HasWord(s, i, <<"f", "a", "l", "s", "e">>)
             THEN Parsed(JBool(FALSE), i + 5)
        ELSE IF IsDigitChar(c) THEN ParseNumber(s, i)
        ELSE NoParse

\* json.loads(text): [ok, v]; ~ok is json.JSONDecodeError.
WholeText(text, r) ==
    IF r.ok /\ SkipWs(text, r.i) = Len(text) + 1
    THEN [ok |-> TRUE, v |-> r.v]
    ELSE [ok |-> FALSE, v |-> JNull]
json_loads(text) == WholeText(text, ParseValue(text, SkipWs(text, 1)))

(***************************************************************************)
(* unflatten_dict.  The function assigns into dicts it reaches from        *)
(* result, and it stores non-string values of flat_dict as they are (the   *)
(* same objects), so dicts live in a heap: a sequence of dict objects      *)
(* whose dict-valued entries are references.  Lists are never assigned     *)
(* into (a list met on the path raises), so they stay inline.              *)
(***************************************************************************)
Ref(a) == [t |-> "ref", a |-> a]
IsRef(v) == v.t = "ref"

\* Place v in the heap: [h, v], v a reference when it is a dict.
RECURSIVE Alloc(_, _)
RECURSIVE AllocEntries(_, _, _)
AllocNext(r, kv, acc) ==
    AllocEntries(r.h, Tail(kv), Append(acc, <<Head(kv)[1], r.v>>))
AllocEntries(h, kv, acc) ==
    IF kv = <<>> THEN [h |-> h, kv |-> acc]
    ELSE AllocNext(Alloc(h, Head(kv)[2]), kv, acc)
AllocDict(r) == [h |-> Append(r.h, r.kv), v |-> Ref(Len(r.h) + 1)]
Alloc(h, v) ==
    IF IsDict(v) THEN AllocDict(AllocEntries(h, v.kv, <<>>))
    ELSE [h |-> h, v |-> v]

\* The value a heap entry stands for.
RECURSIVE Deref(_, _)
Deref(h, v) ==
    IF IsRef(v)
    THEN JDict([i \in 1..Len(h[v.a]) |-> <<h[v.a][i][1], Deref(h, h[v.a][i][2])>>])
    ELSE v

\* The type conversions of a string value: the value stored, or the
\* ValueError of float().
\* try: json.loads(value), except: value
LoadsOrStr(value, r) == IF r.ok THEN r.v ELSE JStr(value)

Coerce(value) ==
    IF value # <<>> /\ Head(value) = "[" /\ value[Len(value)] = "]"
    THEN LoadsOrStr(value, json_loads(value))
    ELSE IF IsDigitStr(value) THEN JInt(IntOfDigits(value, 0))
    ELSE IF CountDots(value) > 0 /\ IsDigitStr(RemoveDots(value))
         THEN IF CountDots(value) = 1 THEN FloatOfStr(value)
              ELSE Raised("ValueError")
    ELSE IF Lower(value) \in {<<"t", "r", "u", "e">>, <<"f", "a", "l", "s", "e">>}
         THEN JBool(Lower(value) = <<"t", "r", "u", "e">>)
    ELSE JStr(value)

\* for k in keys[:-1]: from the dict at address cur, [h, d, err]: d the
\* address of the dict reached, 0 when d is bound to something that is no
\* dict; err when the loop raised (a non-dict d with keys left to walk
\* raises TypeError at "k not in d", "d[k] = {}" or "d = d[k]").
RECURSIVE Walk(_, _, _)
Walk(h, cur, ks) ==
    IF ks = <<>> THEN [h |-> h, d |-> cur, err |-> FALSE]
    ELSE LET k == Head(ks)
         IN  IF ~DictHas(h[cur], k)
             THEN Walk(Append([h EXCEPT ![cur] = DictSet(h[cur], k, Ref(Len(h) + 1))],
                              <<>>),
                       Len(h) + 1, Tail(ks))
             ELSE LET nxt == DictGet(h[cur], k)
                  IN  IF IsRef(nxt) THEN Walk(h, nxt.a, Tail(ks))
                      ELSE IF Tail(ks) = <<>> THEN [h |-> h, d |-> 0, err |-> FALSE]
                      ELSE [h |-> h, d |-> 0, err |-> TRUE]

\* One iteration of the loop over flat_dict.items(): [h, err].
\* d[keys[-1]] = stored, d the binding w that the walk ended with: [h, err].
StoreLeaf(w, last_key, stored) ==
    IF w.err THEN [h |-> w.h, err |-> "TypeError"]
    ELSE IF IsError(stored) THEN [h |-> w.h, err |-> stored.kind]
    ELSE IF w.d = 0 THEN [h |-> w.h, err |-> "TypeError"]
    ELSE [h |-> [w.h EXCEPT ![w.d] = DictSet(w.h[w.d], last_key, stored)],
          err |-> "none"]

\* One iteration of the loop over flat_dict.items(): [h, err].
UnflattenKeys(h, root, keys, value) ==
    StoreLeaf(Walk(h, root, SubSeq(keys, 1, Len(keys) - 1)), keys[Len(keys)],
              IF IsStr(value) THEN Coerce(value.s) ELSE value)
UnflattenStep(h, root, key, value) == UnflattenKeys(h, root, Split(key), value)

RECURSIVE UnflattenLoop(_, _, _)
\* After one iteration: an exception leaves the loop.
LoopOn(r, root, items) ==
    IF r.err # "none" THEN r ELSE UnflattenLoop(r.h, root, items)
UnflattenLoop(h, root, items) ==
    IF items = <<>> THEN [h |-> h, err |-> "none"]
    ELSE LoopOn(UnflattenStep(h, root, Head(items)[1], Head(items)[2]), root,
                Tail(items))

\* What the call returns or raises, and flat_dict as it is after the call.
UnflattenOutcome(input, root, r) ==
    [res |-> IF r.err # "none" THEN Raised(r.err) ELSE Deref(r.h, Ref(root)),
     after |-> JDict([i \in 1..Len(input.kv) |->
                        <<input.kv[i][1], Deref(r.h, input.kv[i][2])>>])]
UnflattenFrom(input, root) ==
    UnflattenOutcome(input, root, UnflattenLoop(Append(input.h, <<>>), root, input.kv))
UnflattenIn(input) == UnflattenFrom(input, Len(input.h) + 1)

\* unflatten_dict(flat_dict): [res, after].
unflatten_dict(flat_dict) == UnflattenIn(AllocEntries(<<>>, flat_dict.kv, <<>>))

(***************************************************************************)
(* The inputs of the transformations: every JSON value of at most MaxNodes *)
(* nodes over TreeScalars and TreeKeys, and every string of at most        *)
(* MaxStrLen characters over Chars (and a few longer ones) as the leaf of  *)
(* a one-key mapping, flat and nested.                                     *)
(***************************************************************************)
Chars == {"1", ".", "[", "]", "a"}
LongStrings ==
    { <<"n", "u", "l", "l">>, <<"N", "o", "n", "e">>, <<"t", "r", "u", "e">>,
      <<"T", "R", "U", "E">>, <<"F", "a", "l", "s", "e">>, <<"1", ".", "2", ".", "3">>,
      <<"[", "1", ",", " ", "1", "]">>, <<"[", "t", "r", "u", "e", "]">>,
      <<"[", "1", ".", "5", "]">> }
Strings == UNION {[1..n -> Chars] : n \in 0..MaxStrLen} \cup LongStrings

Numbers == {JInt(0), JInt(1), JInt(12), JFloat(0, 0), JFloat(15, 1)}
Scalars == {JNull, JBool(TRUE), JBool(FALSE)} \cup Numbers \cup {JStr(s) : s \in Strings}

TreeScalars == {JNull, JInt(0), JStr(<<>>), JStr(<<"a">>), JStr(<<"n", "u", "l", "l">>)}
TreeKeys == {<<"a">>, <<"a", ".", "b">>}

KeySeqs(n) == {ks \in [1..n -> TreeKeys] : \A i, j \in 1..n : ks[i] = ks[j] => i = j}

RECURSIVE TreeVals(_)
RECURSIVE TreeSeqs(_)
\* The sequences of values with m nodes in all.
TreeSeqs(m) ==
    IF m = 0 THEN {<<>>}
    ELSE UNION {{<<v>> \o rest : v \in TreeVals(k), rest \in TreeSeqs(m - k)} : k \in 1..m}
\* The values with exactly n nodes.
TreeVals(n) ==
    IF n = 1 THEN TreeScalars \cup {JList(<<>>), JDict(<<>>)}
    ELSE {JList(xs) : xs \in TreeSeqs(n - 1)}
         \cup UNION {{JDict([i \in 1..Len(xs) |-> <<ks[i], xs[i]>>]) : ks \in KeySeqs(Len(xs))}
                     : xs \in TreeSeqs(n - 1)}

LeafInputs ==
    {JDict(<< <<<<"a">>, v>> >>) : v \in Scalars}
    \cup {JDict(<< <<k, JDict(<< <<<<"b">>, v>> >>)>> >>) : k \in {<<"a">>, <<>>}, v \in Scalars}

Inputs == UNION {TreeVals(n) : n \in 1..MaxNodes} \cup LeafInputs

(***************************************************************************)
(* The session state after initialize_session_state().                     *)
(***************************************************************************)
None == [t |-> "none"]
NoInteraction == [widget |-> "none", message |-> "none"]

SessionInit ==
    /\ original_json = JNull
    /\ generated_jsons = <<>>
    /\ edited_jsons = <<>>
    /\ output_jsons = <<>>
    /\ show_forms = FALSE
    /\ current_editing = None
    /\ last = NoInteraction

appVars == <<original_json, generated_jsons, edited_jsons, output_jsons,
             show_forms, current_editing, last>>

(***************************************************************************)
(* Spec: one transformation is called on one input.                        *)
(***************************************************************************)
Init ==
    /\ arg \in Inputs
    /\ op = "none"
    /\ res = None
    /\ argAfter = arg
    /\ SessionInit

CallMakeEmpty ==
    /\ op = "none"
    /\ op' = "make_empty"
    /\ res' = make_empty(arg)
    /\ UNCHANGED <<arg, argAfter, appVars>>

CallCleanJson ==
    /\ op = "none"
    /\ op' = "clean_json"
    /\ res' = clean_json(arg)
    /\ UNCHANGED <<arg, argAfter, appVars>>

CallFlatten ==
    /\ op = "none"
    /\ IsDict(arg)
    /\ op' = "flatten_dict"
    /\ res' = flatten_dict(arg, <<>>)
    /\ UNCHANGED <<arg, argAfter, appVars>>

CallUnflatten ==
    /\ op = "none"
    /\ IsDict(arg)
    /\ op' = "unflatten_dict"
    /\ \E r \in {unflatten_dict(arg)} :
          /\ res' = r.res
          /\ argAfter' = r.after
    /\ UNCHANGED <<arg, appVars>>

\* unflatten_dict(flatten_dict(arg)), as create_json_form composes them.
CallRoundTrip ==
    /\ op = "none"
    /\ IsDict(arg)
    /\ op' = "round_trip"
    /\ res' = unflatten_dict(flatten_dict(arg, <<>>)).res
    /\ UNCHANGED <<arg, argAfter, appVars>>

Next ==
    \/ CallMakeEmpty
    \/ CallCleanJson
    \/ CallFlatten
    \/ CallUnflatten
    \/ CallRoundTrip

Spec == Init /\ [][Next]_vars

(***************************************************************************)
(* SpecApp: main().  Each action is one rerun of the script with one       *)
(* widget interaction; an exception that leaves the script ends the rerun  *)
(* with the session state as it is.                                        *)
(***************************************************************************)
\* The texts typed into "JSON Template (json0)".
TemplateText == <<"{", "\"", "a", "\"", ":", "\"", "\"", ",", "\"", "b", "\"", ":", "{", "\"", "c", "\"", ":", "0", "}", "}">>
BoolTemplateText == <<"{", "\"", "a", "\"", ":", "t", "r", "u", "e", "}">>
PrefixTemplateText == <<"{", "\"", "a", "\"", ":", "\"", "x", "\"", ",", "\"", "a", ".", "b", "\"", ":", "\"", "\"", "}">>
ListTemplateText == <<"[", "1", "]">>
EmptyObjectText == <<"{", "}">>
NullText == <<"n", "u", "l", "l">>
TruncatedText == <<"{", "\"", "a", "\"", ":">>
BareWordText == <<"a">>
Texts == {TemplateText, BoolTemplateText, PrefixTemplateText, ListTemplateText,
          EmptyObjectText, NullText, TruncatedText, BareWordText, <<>>}

\* What the user types into a text field, and into a number field.
FormStrings == {<<>>, <<"x">>}
FormNumbers == {JFloat(0, 0), JFloat(1, 0)}

\* The session dicts edited_jsons and output_jsons, keyed by json_index.
Put(d, i, v) == [j \in DOMAIN d \cup {i} |-> IF j = i THEN v ELSE d[j]]

DocIndexes == 0..(Len(generated_jsons) - 1)

\* st.session_state.edited_jsons.get(i, json_data)
FormData(i) ==
    IF i \in DOMAIN edited_jsons THEN edited_jsons[i] ELSE generated_jsons[i + 1]

\* current_editing is None or current_editing == i
FormShown(i) == current_editing = None \/ current_editing = JInt(i)

\* The rerun gets as far as document i's form and output: no form before
\* it raised (flatten_dict needs a dict: json_data.items()).
RendersUpTo(i) == \A j \in 0..i : FormShown(j) => IsDict(FormData(j))

\* What one field's widget can return: a checkbox for a bool, a number
\* input (a float) for a number, a text input for anything else; the
\* widget's own value when the user leaves it alone.
FieldChoices(value) ==
    IF IsBool(value) THEN {JBool(TRUE), JBool(FALSE)}
    ELSE IF IsIntOrFloat(value) THEN {FloatOf(value)} \cup FormNumbers
    ELSE {JStr(IF value = JNull THEN <<>> ELSE value.s)}
         \cup {JStr(x) : x \in FormStrings}

\* The edited_values a submission of the form over flat_data can hold.
RECURSIVE FormSubmissions(_)
FormSubmissions(kv) ==
    IF kv = <<>> THEN {<<>>}
    ELSE {<< <<Head(kv)[1], c>> >> \o rest :
            c \in FieldChoices(Head(kv)[2]), rest \in FormSubmissions(Tail(kv))}

\* The slip of clearing original_json when the text does not decode.
LoadedTemplateOrNone(old, r) == IF r.ok THEN r.v ELSE JNull

\* session_state.original_json after the click: the parsed value, or on
\* JSONDecodeError the value it had.
LoadedTemplate(old, r) == IF r.ok THEN r.v ELSE old

\* "Load JSON Template"
LoadTemplate(text) ==
    /\ ~Truthy(original_json)
    /\ \E r \in {json_loads(text)} :
          /\ original_json' = LoadedTemplate(original_json, r)
          /\ last' = [widget |-> "load", text |-> text,
                      message |-> IF r.ok THEN "success" ELSE "error"]
    /\ UNCHANGED <<generated_jsons, edited_jsons, output_jsons, show_forms,
                   current_editing, fnVars>>

\* "Start Over": every key is deleted and the rerun initializes them again.
StartOver ==
    /\ Truthy(original_json)
    /\ original_json' = JNull
    /\ generated_jsons' = <<>>
    /\ edited_jsons' = <<>>
    /\ output_jsons' = <<>>
    /\ show_forms' = FALSE
    /\ current_editing' = None
    /\ last' = [widget |-> "start_over", message |-> "none"]
    /\ UNCHANGED fnVars

\* What the number input can hold, within the model's bound.
NumJsons == {n \in MinJsons..MaxJsons : n <= MaxDocs}

\* [copy.deepcopy(template) for _ in range(num_jsons)]
Copies(template, num_jsons) == [i \in 1..num_jsons |-> template]

\* "Duplicate JSON"
Duplicate(num_jsons) ==
    /\ Truthy(original_json)
    /\ ~show_forms
    /\ generated_jsons' = Copies(original_json, num_jsons)
    /\ show_forms' = TRUE
    /\ last' = [widget |-> "duplicate", message |-> "success"]
    /\ UNCHANGED <<original_json, edited_jsons, output_jsons, current_editing, fnVars>>

\* "Create Empty JSONs"
CreateEmpty(num_jsons) ==
    /\ Truthy(original_json)
    /\ ~show_forms
    /\ generated_jsons' = Copies(make_empty(original_json), num_jsons)
    /\ show_forms' = TRUE
    /\ last' = [widget |-> "create_empty", message |-> "success"]
    /\ UNCHANGED <<original_json, edited_jsons, output_jsons, current_editing, fnVars>>

\* The slip of storing every document's edit under index 0.
StoreEditedAtZero(edited, json_index, unflattened) == Put(edited, 0, unflattened)

\* st.session_state.edited_jsons[json_index] = unflattened
StoreEdited(edited, json_index, unflattened) == Put(edited, json_index, unflattened)

\* st.session_state.output_jsons[json_index] = cleaned_json
StoreOutput(output, json_index, cleaned_json) == Put(output, json_index, cleaned_json)

\* A submission of document i's form with edited_values: "Generate Output
\* JSON" or "Preview Changes".  unflatten_dict may raise, and then nothing
\* is stored.
SubmitForm(i, button, edited_values) ==
    /\ \E u \in {unflatten_dict(JDict(edited_values)).res} :
          IF IsError(u)
          THEN /\ last' = [widget |-> button, doc |-> i, message |-> "exception"]
               /\ UNCHANGED <<edited_jsons, output_jsons>>
          ELSE /\ edited_jsons' = StoreEdited(edited_jsons, i, u)
               /\ output_jsons' = IF button = "generate"
                                  THEN StoreOutput(output_jsons, i, clean_json(u))
                                  ELSE output_jsons
               /\ last' = [widget |-> button, doc |-> i,
                           message |-> IF button = "generate" THEN "success" ELSE "info"]
    /\ UNCHANGED <<original_json, generated_jsons, show_forms, current_editing, fnVars>>

Submit ==
    /\ Truthy(original_json)
    /\ show_forms
    /\ \E i \in DocIndexes :
          /\ RendersUpTo(i)
          /\ FormShown(i)
          /\ \E button \in {"generate", "preview"} :
             \E edited_values \in FormSubmissions(flatten_dict(FormData(i), <<>>).kv) :
                SubmitForm(i, button, edited_values)

\* "Edit Again" under document i's output
EditAgain(i) ==
    /\ Truthy(original_json)
    /\ show_forms
    /\ i \in DocIndexes
    /\ RendersUpTo(i)
    /\ i \in DOMAIN output_jsons
    /\ current_editing' = JInt(i)
    /\ last' = [widget |-> "edit_again", doc |-> i, message |-> "none"]
    /\ UNCHANGED <<original_json, generated_jsons, edited_jsons, output_jsons,
                   show_forms, fnVars>>

\* "Edit All JSONs"
EditAll ==
    /\ Truthy(original_json)
    /\ show_forms
    /\ Len(generated_jsons) > 0 => RendersUpTo(Len(generated_jsons) - 1)
    /\ current_editing # None
    /\ current_editing' = None
    /\ last' = [widget |-> "edit_all", message |-> "none"]
    /\ UNCHANGED <<original_json, generated_jsons, edited_jsons, output_jsons,
                   show_forms, fnVars>>

InitApp ==
    /\ arg = JNull
    /\ op = "none"
    /\ res = None
    /\ argAfter = JNull
    /\ SessionInit

NextApp ==
    \/ \E text \in Texts : LoadTemplate(text)
    \/ StartOver
    \/ \E num_jsons \in NumJsons : Duplicate(num_jsons)
    \/ \E num_jsons \in NumJsons : CreateEmpty(num_jsons)
    \/ Submit
    \/ \E i \in 0..(MaxDocs - 1) : EditAgain(i)
    \/ EditAll

SpecApp == InitApp /\ [][NextApp]_vars

(***************************************************************************)
(* Python's ==: numbers compare by value across int, float and bool, and   *)
(* dicts compare without regard to order.                                  *)
(***************************************************************************)
IsNumber(v) == v.t \in {"int", "float", "bool"}

RECURSIVE PyEq(_, _)
PyEq(a, b) ==
    IF IsNumber(a) /\ IsNumber(b) THEN FloatOf(a) = FloatOf(b)
    ELSE IF IsList(a) /\ IsList(b)
         THEN /\ Len(a.xs) = Len(b.xs)
              /\ \A i \in 1..Len(a.xs) : PyEq(a.xs[i], b.xs[i])
    ELSE IF IsDict(a) /\ IsDict(b)
         THEN /\ DictKeys(a.kv) = DictKeys(b.kv)
              /\ \A k \in DictKeys(a.kv) : PyEq(DictGet(a.kv, k), DictGet(b.kv, k))
    ELSE a = b

(***************************************************************************)
(* C1: clean_json is idempotent: cleaning what clean_json returned returns *)
(* it unchanged, for every JSON value.                                     *)
(***************************************************************************)
C1_CleanIdempotent == op = "clean_json" => clean_json(res) = res

\* clean_json changed a mapping and left a list that holds a mapping in it.
C1_Witness ==
    /\ op = "clean_json"
    /\ IsDict(res)
    /\ res # arg
    /\ \E i \in 1..Len(res.kv) :
          /\ IsList(res.kv[i][2])
          /\ \E j \in 1..Len(res.kv[i][2].xs) : IsDict(res.kv[i][2].xs[j])

(***************************************************************************)
(* C2: the result of clean_json holds, at no depth, a mapping entry or     *)
(* list item that is null or the empty string, nor a mapping entry whose   *)
(* value is an empty mapping or an empty list.  Stated for a mapping       *)
(* input, the case clean_json's signature names.                           *)
(***************************************************************************)
IsEmptyLeaf(v) == v = JNull \/ v = JStr(<<>>)
IsEmptyContainer(v) == v = JDict(<<>>) \/ v = JList(<<>>)

RECURSIVE NoEmptyInside(_)
NoEmptyInside(v) ==
    IF IsDict(v)
    THEN \A i \in 1..Len(v.kv) :
            /\ ~IsEmptyLeaf(v.kv[i][2])
            /\ ~IsEmptyContainer(v.kv[i][2])
            /\ NoEmptyInside(v.kv[i][2])
    ELSE IF IsList(v)
    THEN \A i \in 1..Len(v.xs) :
            /\ ~IsEmptyLeaf(v.xs[i])
            /\ NoEmptyInside(v.xs[i])
    ELSE TRUE

C2_NoEmptyLeft == (op = "clean_json" /\ IsDict(arg)) => NoEmptyInside(res)

(***************************************************************************)
(* C3: for a mapping M, a key is absent from clean_json(M) exactly when    *)
(* its value is null, "", "null", "None", or a mapping or list that prunes *)
(* to nothing; the other keys are present in M's order, scalars unchanged. *)
(***************************************************************************)
\* The values the drop rule names, stated without clean_json: a mapping
\* prunes to nothing when every entry is dropped, a list when every item
\* is null, "" or [].
RECURSIVE Dropped(_)
Dropped(v) ==
    IF IsDict(v) THEN \A i \in 1..Len(v.kv) : Dropped(v.kv[i][2])
    ELSE IF IsList(v)
    THEN \A i \in 1..Len(v.xs) : v.xs[i] \in {JNull, JStr(<<>>), JList(<<>>)}
    ELSE v \in {JNull, JStr(<<>>), JStr(<<"n", "u", "l", "l">>),
                JStr(<<"N", "o", "n", "e">>)}

KeptEntry(e) == ~Dropped(e[2])
KeySeq(kv) == [i \in 1..Len(kv) |-> kv[i][1]]

C3_DropRule ==
    (op = "clean_json" /\ IsDict(arg)) =>
        /\ KeySeq(res.kv) = KeySeq(SelectSeq(arg.kv, KeptEntry))
        /\ \A i \in 1..Len(arg.kv) :
              (KeptEntry(arg.kv[i]) /\ ~IsDict(arg.kv[i][2]) /\ ~IsList(arg.kv[i][2]))
                  => DictGet(res.kv, arg.kv[i][1]) = arg.kv[i][2]

\* A list that prunes to nothing is dropped ahead of a kept 0.
C3_Witness ==
    /\ op = "clean_json"
    /\ IsDict(arg)
    /\ Len(arg.kv) = 2
    /\ IsList(arg.kv[1][2]) /\ arg.kv[1][2].xs # <<>>
    /\ arg.kv[2][2] = JInt(0)
    /\ res = JDict(<<arg.kv[2]>>)

(***************************************************************************)
(* C4: make_empty, clean_json, flatten_dict and                            *)
(* unflatten_dict(flatten_dict(M)) return a value for every mapping M and  *)
(* never raise.                                                            *)
(***************************************************************************)
C4_NeverRaises ==
    (IsDict(arg) /\ op \in {"make_empty", "clean_json", "flatten_dict", "round_trip"})
        => ~IsError(res)

(***************************************************************************)
(* C5: unflatten_dict(flatten_dict(M)) equals M for every nested mapping M *)
(* whose leaves are strings, ints, floats and booleans, except when a      *)
(* string leaf is digit-only, float-looking or exactly "true"/"false".     *)
(***************************************************************************)
RECURSIVE Leaves(_)
Leaves(v) ==
    IF IsDict(v) THEN UNION {Leaves(v.kv[i][2]) : i \in 1..Len(v.kv)}
    ELSE IF IsList(v) THEN {v} \cup UNION {Leaves(v.xs[i]) : i \in 1..Len(v.xs)}
    ELSE {v}

\* The mappings the claim is about: no list and no null at any depth.
ScalarOnly(M) ==
    IsDict(M) /\ \A v \in Leaves(M) : v.t \in {"str", "int", "float", "bool"}

\* Digits with at least one '.': what the float test of unflatten_dict takes.
FloatLooking(s) == CountDots(s) > 0 /\ IsDigitStr(RemoveDots(s))

\* The lossy string leaves the claim names.
NamedLossy(s) ==
    \/ IsDigitStr(s)
    \/ FloatLooking(s)
    \/ s \in {<<"t", "r", "u", "e">>, <<"f", "a", "l", "s", "e">>}

RECURSIVE Mappings(_)
Mappings(v) ==
    IF IsDict(v) THEN {v} \cup UNION {Mappings(v.kv[i][2]) : i \in 1..Len(v.kv)}
    ELSE {}

\* The string leaves unflatten_dict converts: the named ones, "true" and
\* "false" in any case, and a string in brackets.
Converted(s) ==
    \/ IsDigitStr(s)
    \/ FloatLooking(s)
    \/ Lower(s) \in {<<"t", "r", "u", "e">>, <<"f", "a", "l", "s", "e">>}
    \/ (s # <<>> /\ Head(s) = "[" /\ s[Len(s)] = "]")

\* The amended precondition: also no empty nested mapping, no '.' in a
\* key, no mapping under an empty top-level key, no converted string leaf.
RoundTrips(M) ==
    /\ ScalarOnly(M)
    /\ \A v \in Leaves(M) : IsStr(v) => ~Converted(v.s)
    /\ \A d \in Mappings(M) : d = M \/ d.kv # <<>>
    /\ \A d \in Mappings(M) : \A k \in DictKeys(d.kv) : CountDots(k) = 0
    /\ \A i \in 1..Len(M.kv) : M.kv[i][1] = <<>> => ~IsDict(M.kv[i][2])

RECURSIVE EmptyOfKind(_, _)
EmptyOfKind(T, R) ==
    CASE T.t = "dict" -> /\ IsDict(R)
                         /\ KeySeq(R.kv) = KeySeq(T.kv)
                         /\ \A i \in 1..Len(T.kv) : EmptyOfKind(T.kv[i][2], R.kv[i][2])
      [] T.t = "list" -> R = JList(<<>>)
      [] T.t = "str" -> R = JStr(<<>>)
      [] T.t \in {"int", "float"} -> R \in {JInt(0), JFloat(0, 0)}
      [] T.t = "bool" -> R = JBool(FALSE)
      [] T.t = "null" -> R = JNull

C6_EmptyOfKind == op = "make_empty" => EmptyOfKind(arg, res)

(***************************************************************************)
(* C8: a transformation leaves its argument as it was before the call, at  *)
(* every depth.                                                            *)
(***************************************************************************)
C8_ArgumentUnchanged ==
    op \in {"make_empty", "clean_json", "flatten_dict", "unflatten_dict"}
        => argAfter = arg

(***************************************************************************)
(* C9: unflatten_dict stores a string leaf by the decision list: in        *)
(* brackets, parsed as JSON (the string when that fails); all digits, an   *)
(* int; exactly one '.' and digits, a float; "true"/"false" in any case, a *)
(* boolean; anything else, "1.2.3" included, the string.  A value that is  *)
(* no string is stored unchanged.                                          *)
(***************************************************************************)
DecisionList(v) ==
    IF ~IsStr(v) THEN v
    ELSE IF v.s # <<>> /\ Head(v.s) = "[" /\ v.s[Len(v.s)] = "]"
         THEN LoadsOrStr(v.s, json_loads(v.s))
    ELSE IF IsDigitStr(v.s) THEN JInt(IntOfDigits(v.s, 0))
    ELSE IF CountDots(v.s) = 1 /\ IsDigitStr(RemoveDots(v.s)) THEN FloatOfStr(v.s)
    ELSE IF Lower(v.s) = <<"t", "r", "u", "e">> THEN JBool(TRUE)
    ELSE IF Lower(v.s) = <<"f", "a", "l", "s", "e">> THEN JBool(FALSE)
    ELSE v

C9_LeafDecisionList ==
    (op = "unflatten_dict" /\ Len(arg.kv) = 1 /\ arg.kv[1][1] = <<"a">>)
        => res = JDict(<< <<<<"a">>, DecisionList(arg.kv[1][2])>> >>)

(***************************************************************************)
(* C7: a click on "Load JSON Template" with text that does not decode      *)
(* shows the error and leaves the session state as it was, on step 1; a    *)
(* click changes original_json only when the text decodes.                 *)
(***************************************************************************)
C7_LoadStep ==
    /\ (last'.widget = "load" /\ ~json_loads(last'.text).ok) =>
          /\ last'.message = "error"
          /\ session' = session
          /\ ~Truthy(original_json')
    /\ (last'.widget = "load" /\ original_json' # original_json) =>
          json_loads(last'.text).ok

C7_DecodeFailureCommitsNothing == [][C7_LoadStep]_vars

\* A text that does not decode was loaded over an empty template that an
\* earlier click had loaded.
C7_Witness ==
    /\ last.widget = "load"
    /\ last.message = "error"
    /\ original_json = JDict(<<>>)

(***************************************************************************)
(* C10: a form submission on document i changes edited_jsons[i] and, for   *)
(* Generate, output_jsons[i], and nothing else: not generated_jsons, not   *)
(* original_json, no entry of another document; and output_jsons holds     *)
(* only indexes of documents that have an edited_jsons entry.              *)
(***************************************************************************)
Others(d, i) == [j \in DOMAIN d \ {i} |-> d[j]]

C10_SubmitStep ==
    last'.widget \in {"generate", "preview"} =>
        /\ generated_jsons' = generated_jsons
        /\ original_json' = original_json
        /\ Others(edited_jsons', last'.doc) = Others(edited_jsons, last'.doc)
        /\ Others(output_jsons', last'.doc) = Others(output_jsons, last'.doc)
        /\ last'.widget = "preview" => output_jsons' = output_jsons

C10_OutputsOfEdited ==
    /\ DOMAIN output_jsons \subseteq DOMAIN edited_jsons
    /\ DOMAIN edited_jsons \subseteq DocIndexes

C10_DocumentsIndependent == []C10_OutputsOfEdited /\ [][C10_SubmitStep]_vars

\* Two documents were edited apart, and only the second has an output.
C10_Witness ==
    /\ Len(generated_jsons) = 2
    /\ DOMAIN edited_jsons = {0, 1}
    /\ DOMAIN output_jsons = {1}
    /\ edited_jsons[0] # edited_jsons[1]
    /\ last.widget = "generate"
    /\ last.doc = 1

====
